---- MODULE Spec2Model ----
(***************************************************************************)
(* Model of insurance_termination.get_earliest_standard_termination and    *)
(* its helpers.  A calendar date is a record [y, m, d]; the date and       *)
(* relativedelta arithmetic is computed as datetime/dateutil compute it    *)
(* (month arithmetic with the day clamped to the length of the month).     *)
(***************************************************************************)
EXTENDS Integers, Sequences, FiniteSets, TLC

\* ------------------------------------------------------------------ bounds
\* Last year of the window of years around the change of law.
MaxYear == 2026

\* The years the sampled dates are drawn from: the years around the legal
\* floor, a leap year under the old rules, and the window around 2024-10-01.
Years == {2013, 2014, 2020} \cup (2023 .. MaxYear)

\* The (month, day) pairs the sampled dates are drawn from: the end of
\* February, the day of the legal floor, a mid-month day, days three months,
\* two months and less than one month before October 1st, October 1st
\* itself, and two month ends that month arithmetic clamps.
MonthDays == { <<2, 28>>, <<2, 29>>, <<4, 4>>, <<5, 18>>, <<7, 1>>, <<8, 1>>,
               <<9, 18>>, <<10, 1>>, <<11, 30>>, <<12, 31>> }

\* ------------------------------------------------------- calendar dates
\* The value of an argument that was not provided (None).
None == [y |-> 0, m |-> 0, d |-> 0]

IsLeap(y) == (y % 4 = 0) /\ ((y % 100 # 0) \/ (y % 400 = 0))

DaysInMonth(y, m) ==
  IF m = 2 THEN (IF IsLeap(y) THEN 29 ELSE 28)
  ELSE IF m \in {4, 6, 9, 11} THEN 30 ELSE 31

Date(y, m, d) == [y |-> y, m |-> m, d |-> d]

IsValidDate(dt) == dt.m \in 1..12 /\ dt.d >= 1 /\ dt.d <= DaysInMonth(dt.y, dt.m)

\* date.__lt__, __le__, ... : dates are ordered by (year, month, day).
Key(dt) == dt.y * 10000 + dt.m * 100 + dt.d
Lt(a, b) == Key(a) < Key(b)
Le(a, b) == Key(a) <= Key(b)
Gt(a, b) == Key(a) > Key(b)
Ge(a, b) == Key(a) >= Key(b)
Max(a, b) == IF Ge(a, b) THEN a ELSE b

\* Number of days of the months of year y before month m.
RECURSIVE DaysBeforeMonth(_, _)
DaysBeforeMonth(y, m) ==
  IF m <= 1 THEN 0 ELSE DaysBeforeMonth(y, m - 1) + DaysInMonth(y, m - 1)

\* date.toordinal(): the number of days since 0001-01-01, plus one.
ToOrdinal(dt) ==
  LET p == dt.y - 1
  IN  p * 365 + (p \div 4) - (p \div 100) + (p \div 400)
        + DaysBeforeMonth(dt.y, dt.m) + dt.d

\* date + relativedelta(months=n), n of either sign: the month is moved and
\* the day is clamped to the length of the month reached.
AddMonths(dt, n) ==
  LET t  == dt.y * 12 + (dt.m - 1) + n
      ny == t \div 12
      nm == (t % 12) + 1
      dm == DaysInMonth(ny, nm)
  IN  Date(ny, nm, IF dt.d > dm THEN dm ELSE dt.d)

\* date + relativedelta(years=n): the year is moved and the day is clamped
\* (February 29 becomes February 28 in a year that is not a leap year).
AddYears(dt, n) ==
  LET ny == dt.y + n
      dm == DaysInMonth(ny, dt.m)
  IN  Date(ny, dt.m, IF dt.d > dm THEN dm ELSE dt.d)

\* relativedelta(dt1, dt2): the number of whole months is first taken from
\* the difference of the years and months, then moved towards zero until
\* dt2 + months does not pass dt1; the rest is counted in days.
RECURSIVE FitMonths(_, _, _)
FitMonths(dt1, dt2, months) ==
  IF Lt(dt1, dt2)
    THEN IF Gt(dt1, AddMonths(dt2, months))
           THEN FitMonths(dt1, dt2, months + 1) ELSE months
    ELSE IF Lt(dt1, AddMonths(dt2, months))
           THEN FitMonths(dt1, dt2, months - 1) ELSE months

relativedelta(dt1, dt2) ==
  LET months == FitMonths(dt1, dt2, (dt1.y - dt2.y) * 12 + (dt1.m - dt2.m))
      s      == IF months < 0 THEN -1 ELSE 1
      dtm    == AddMonths(dt2, months)
  IN  [ years  |-> s * ((months * s) \div 12),
        months |-> s * ((months * s) % 12),
        days   |-> ToOrdinal(dt1) - ToOrdinal(dtm) ]

\* ------------------------------------------------------------ constants
\* date(2014, 4, 4): the earliest supported date.
LegalFloor == Date(2014, 4, 4)
\* date(2024, 10, 1): the day the new law took effect.
RegimeBoundary == Date(2024, 10, 1)
\* The notice periods, in months.
NoticeNew == 2
NoticeOld == 3

\* ------------------------------------------------------------- helpers
ceil_years(delta) ==
  IF delta.days > 0 \/ delta.months > 0 THEN delta.years + 1 ELSE delta.years

get_earliest_termination_case_1(contract_start) ==
  AddYears(contract_start, 1)

\* Case 2 without the expected termination as a lower bound.
case_2_ignoring_expected(earliest_expected_termination, reference_date, first_contract_renewal) ==
  AddMonths(Max(reference_date, first_contract_renewal), NoticeNew)

\* Case 2 with the notice counted from the reference date alone.
case_2_ignoring_renewal(earliest_expected_termination, reference_date, first_contract_renewal) ==
  Max(earliest_expected_termination, AddMonths(reference_date, NoticeNew))

get_earliest_termination_case_2(earliest_expected_termination, reference_date, first_contract_renewal) ==
  LET earliest_notice_end ==
        AddMonths(Max(reference_date, first_contract_renewal), NoticeNew)
  IN  Max(earliest_expected_termination, earliest_notice_end)

\* Case 3 that never skips the next renewal.
case_3_never_skipping(earliest_notice_end, next_contract_renewal) ==
  next_contract_renewal

\* Case 3 that also skips the renewal the notice ends on.
case_3_skipping_on_equality(earliest_notice_end, next_contract_renewal) ==
  IF Ge(earliest_notice_end, next_contract_renewal)
    THEN AddYears(next_contract_renewal, 1)
    ELSE next_contract_renewal

get_earliest_termination_case_3(earliest_notice_end, next_contract_renewal) ==
  IF Gt(earliest_notice_end, next_contract_renewal)
    THEN AddYears(next_contract_renewal, 1)
    ELSE next_contract_renewal

\* ------------------------------------------------------- main function
\* reference_date = reference_date or date.today()
DefaultReference(reference_date, clock) ==
  IF reference_date # None THEN reference_date ELSE clock

\* if not earliest_expected_termination or it is before reference_date
DefaultExpected(earliest_expected_termination, reference_date) ==
  IF earliest_expected_termination = None
       \/ Lt(earliest_expected_termination, reference_date)
    THEN reference_date
    ELSE earliest_expected_termination

\* The check of the dates that also rejects a reference date equal to the
\* contract start.
ContractDateInvalidOnEquality(reference_date, contract_start) ==
  Le(reference_date, contract_start)

\* if reference_date < contract_start: raise ContractDateError
ContractDateInvalid(reference_date, contract_start) ==
  Lt(reference_date, contract_start)

\* if earliest_expected_termination < date(2014, 4, 4): raise UnsupportedDateError
DateUnsupported(earliest_expected_termination) ==
  Lt(earliest_expected_termination, LegalFloor)

\* The condition of case 1: the contract is in its first year at the expected
\* termination and the notice ends before the first renewal.
IsCase1(contract_age_at_expected_termination, earliest_notice_end, first_contract_renewal) ==
  /\ ceil_years(contract_age_at_expected_termination) <= 1
  /\ Lt(earliest_notice_end, first_contract_renewal)

\* The branch for a contract started on or after October 1st, 2024.
TerminationNewContract(contract_start, earliest_expected_termination, reference_date) ==
  LET contract_age_at_expected_termination ==
        relativedelta(earliest_expected_termination, contract_start)
      earliest_notice_end == AddMonths(reference_date, NoticeNew)
      first_contract_renewal == AddYears(contract_start, 1)
  IN  IF IsCase1(contract_age_at_expected_termination, earliest_notice_end,
                 first_contract_renewal)
        THEN get_earliest_termination_case_1(contract_start)
        ELSE get_earliest_termination_case_2(earliest_expected_termination,
               reference_date, first_contract_renewal)

\* The branch for an old contract that gives case 2 the next renewal where
\* the previous one is meant.
TerminationOldContractFromNextRenewal(contract_start, earliest_expected_termination, reference_date) ==
  LET contract_age_at_expected_termination ==
        relativedelta(earliest_expected_termination, contract_start)
      earliest_notice_end == AddMonths(reference_date, NoticeOld)
      next_contract_renewal ==
        AddYears(contract_start, ceil_years(contract_age_at_expected_termination))
      previous_contract_renewal == AddYears(next_contract_renewal, -1)
  IN  IF Ge(previous_contract_renewal, RegimeBoundary)
           \/ ( Ge(next_contract_renewal, RegimeBoundary)
                /\ Gt(earliest_notice_end, next_contract_renewal) )
        THEN get_earliest_termination_case_2(earliest_expected_termination,
               reference_date, next_contract_renewal)
        ELSE get_earliest_termination_case_3(earliest_notice_end,
               next_contract_renewal)

\* The branch for a contract started before October 1st, 2024.
TerminationOldContract(contract_start, earliest_expected_termination, reference_date) ==
  LET contract_age_at_expected_termination ==
        relativedelta(earliest_expected_termination, contract_start)
      earliest_notice_end == AddMonths(reference_date, NoticeOld)
      next_contract_renewal ==
        AddYears(contract_start, ceil_years(contract_age_at_expected_termination))
      previous_contract_renewal == AddYears(next_contract_renewal, -1)
  IN  IF Ge(previous_contract_renewal, RegimeBoundary)
        THEN get_earliest_termination_case_2(earliest_expected_termination,
               reference_date, previous_contract_renewal)
        ELSE IF Ge(next_contract_renewal, RegimeBoundary)
                  /\ Gt(earliest_notice_end, next_contract_renewal)
               THEN get_earliest_termination_case_2(earliest_expected_termination,
                      reference_date, next_contract_renewal)
               ELSE get_earliest_termination_case_3(earliest_notice_end,
                      next_contract_renewal)

\* What a call gives back: a date, or one of the two errors.
Returned(dt) == [kind |-> "date", value |-> dt]
Raised(error) == [kind |-> error, value |-> None]
NoResult == [kind |-> "none", value |-> None]

\* get_earliest_standard_termination; clock is what date.today() gives.
get_earliest_standard_termination(contract_start, expected, reference, clock) ==
  LET reference_date == DefaultReference(reference, clock)
      earliest_expected_termination == DefaultExpected(expected, reference_date)
  IN  IF ContractDateInvalid(reference_date, contract_start)
        THEN Raised("ContractDateError")
      ELSE IF DateUnsupported(earliest_expected_termination)
        THEN Raised("UnsupportedDateError")
      ELSE IF Ge(contract_start, RegimeBoundary)
        THEN Returned(TerminationNewContract(contract_start,
                        earliest_expected_termination, reference_date))
        ELSE Returned(TerminationOldContract(contract_start,
                        earliest_expected_termination, reference_date))

\* ------------------------------------------------------------ the model
\* The dates the arguments and the clock are drawn from.
Dates == { dt \in [y : Years, m : 1..12, d : 1..31] :
             /\ <<dt.m, dt.d>> \in MonthDays
             /\ IsValidDate(dt) }

VARIABLES
  pc,                             \* "idle", "called" or "called_again"
  contract_start,                 \* the arguments of the call, as passed
  earliest_expected_termination,
  reference_date,
  today,                          \* date.today() when it was read, else None
  result,                         \* what the call gave back
  again                           \* what the call on its own result gave back

vars == << pc, contract_start, earliest_expected_termination, reference_date,
           today, result, again >>

Init ==
  /\ pc = "idle"
  /\ contract_start = None
  /\ earliest_expected_termination = None
  /\ reference_date = None
  /\ today = None
  /\ result = NoResult
  /\ again = NoResult

\* A call with a reference date: the clock is not read.
Call ==
  /\ pc = "idle"
  /\ \E cs \in Dates, eet \in Dates \cup {None}, ref \in Dates :
       /\ contract_start' = cs
       /\ earliest_expected_termination' = eet
       /\ reference_date' = ref
       /\ today' = None
       /\ result' = get_earliest_standard_termination(cs, eet, ref, None)
  /\ pc' = "called"
  /\ UNCHANGED again

\* A call without a reference date: date.today() is read.
CallToday ==
  /\ pc = "idle"
  /\ \E cs \in Dates, eet \in Dates \cup {None}, clock \in Dates :
       /\ contract_start' = cs
       /\ earliest_expected_termination' = eet
       /\ reference_date' = None
       /\ today' = clock
       /\ result' = get_earliest_standard_termination(cs, eet, None, clock)
  /\ pc' = "called"
  /\ UNCHANGED again

\* The caller calls again with the date it got as the earliest expected
\* termination, and the same contract start and reference date.
CallAgain ==
  /\ pc = "called"
  /\ result.kind = "date"
  /\ again' = get_earliest_standard_termination(contract_start, result.value,
                                                 reference_date, today)
  /\ pc' = "called_again"
  /\ UNCHANGED << contract_start, earliest_expected_termination,
                  reference_date, today, result >>

Next == Call \/ CallToday \/ CallAgain

Spec == Init /\ [][Next]_vars

\* ------------------------------------------------ the values of a call
\* The reference date and the earliest expected termination after defaulting.
Ref == DefaultReference(reference_date, today)
EET == DefaultExpected(earliest_expected_termination, Ref)

TypeOK ==
  /\ pc \in {"idle", "called", "called_again"}
  /\ result.kind \in {"none", "date", "ContractDateError", "UnsupportedDateError"}
  /\ result.kind = "date" => IsValidDate(result.value)
  /\ again.kind = "date" => IsValidDate(again.value)

\* --------------------------------------------- notions used by the claims
\* A call was made and did not raise.
ReturnedDate == pc # "idle" /\ result.kind = "date"

\* The anniversaries of contract_start: contract_start moved by k years,
\* February 29 falling on February 28 in a year that is not a leap year.
Anniversary(k) == AddYears(contract_start, k)

\* The anniversary of contract_start at or immediately before EET (defined
\* when EET is not before contract_start).
LatestRenewal ==
  LET ks == { k \in 0 .. (EET.y - contract_start.y) : Le(Anniversary(k), EET) }
  IN  Anniversary(CHOOSE k \in ks : \A j \in ks : j <= k)

\* The first anniversary of contract_start (contract_start included) at or
\* after EET.
NextRenewal ==
  LET ks == { k \in 0 .. (EET.y - contract_start.y + 1) : Ge(Anniversary(k), EET) }
  IN  Anniversary(CHOOSE k \in ks : \A j \in ks : k <= j)

\* -------------------------------------------------------------------- C1
\* C1: a call that returns a date returns a date on or after the earliest
\* expected termination after defaulting, max(expected, reference).
C1_NotBeforeExpected ==
  ReturnedDate => Ge(result.value, EET) /\ Ge(result.value, Ref)

\* The expected termination was given, is after the reference date, and is
\* what the call returns.
C1_Witness ==
  /\ ReturnedDate
  /\ earliest_expected_termination # None
  /\ Gt(earliest_expected_termination, Ref)
  /\ result.value = earliest_expected_termination

\* -------------------------------------------------------------------- C2
\* C2 as stated: the returned date is on or after the reference date plus 2
\* months when LatestRenewal is on or after 2024-10-01, plus 3 months when
\* LatestRenewal is before 2024-10-01.
C2_NoticeByLatestRenewal ==
  ReturnedDate =>
    Ge(result.value,
       AddMonths(Ref, IF Ge(LatestRenewal, RegimeBoundary) THEN 2 ELSE 3))

\* C2 as amended: the returned date is always on or after the reference date
\* plus 2 months, and on or after the reference date plus 3 months when the
\* next renewal (the anniversary at or after EET) is before 2024-10-01.
C2_NoticeByNextRenewal ==
  ReturnedDate =>
    /\ Ge(result.value, AddMonths(Ref, 2))
    /\ Lt(NextRenewal, RegimeBoundary) => Ge(result.value, AddMonths(Ref, 3))

\* The next renewal is under the old rules and the 3 months of notice end
\* after it.
C2_Witness ==
  /\ ReturnedDate
  /\ Lt(NextRenewal, RegimeBoundary)
  /\ Gt(AddMonths(Ref, 3), NextRenewal)

C4_UnsupportedByLatestRenewal ==
  (pc # "idle" /\ Ge(Ref, contract_start)) =>
    ((result.kind = "UnsupportedDateError") <=> Lt(LatestRenewal, LegalFloor))

\* -------------------------------------------------------------------- C5
\* C5: for a contract started on or after 2024-10-01, with the reference
\* date not before contract_start, EET on or before the first anniversary
\* and the 2 months of notice ending on or before the first anniversary, the
\* call returns exactly contract_start + 1 year.
C5_FirstYearTerminatesAtAnniversary ==
  ( /\ pc # "idle"
    /\ Ge(contract_start, RegimeBoundary)
    /\ Ge(Ref, contract_start)
    /\ Le(EET, Anniversary(1))
    /\ Le(AddMonths(Ref, 2), Anniversary(1)) )
  => result = Returned(Anniversary(1))

\* -------------------------------------------------------------------- C6
\* The case of C6: a contract started on or after 2024-10-01, in its first
\* year at EET, whose 2 months of notice end after the first anniversary.
C6_Case ==
  /\ pc # "idle"
  /\ Ge(contract_start, RegimeBoundary)
  /\ Le(contract_start, Ref)
  /\ Le(Ref, EET)
  /\ Lt(EET, Anniversary(1))
  /\ Gt(AddMonths(Ref, 2), Anniversary(1))

\* C6 as stated: in that case the call returns max(contract_start + 1 year,
\* EET, reference date + 2 months), which is the reference date + 2 months.
C6_NoticeFromReference ==
  C6_Case =>
    /\ result = Returned(Max(Anniversary(1), Max(EET, AddMonths(Ref, 2))))
    /\ result = Returned(AddMonths(Ref, 2))

\* C6 as amended: in that case the call returns the first anniversary plus
\* 2 months: the notice is counted from the first renewal, not from the
\* reference date.
C6_NoticeFromFirstRenewal ==
  C6_Case => result = Returned(AddMonths(Anniversary(1), 2))

\* The case of C6 happens, and the date returned is after the reference date
\* plus 2 months.
C6_Witness ==
  /\ C6_Case
  /\ result.kind = "date"
  /\ Gt(result.value, AddMonths(Ref, 2))

\* -------------------------------------------------------------------- C7
\* The case of C7: LatestRenewal is on or after 2024-10-01 and is not
\* contract_start itself.
C7_Case ==
  /\ ReturnedDate
  /\ Ge(LatestRenewal, RegimeBoundary)
  /\ LatestRenewal # contract_start

\* C7 as stated: in that case the call returns max(EET, reference date + 2
\* months); the renewal adds no further lower bound.
C7_RenewalAddsNoBound ==
  C7_Case => result.value = Max(EET, AddMonths(Ref, 2))

\* C7 as amended: in that case the date returned is at least max(EET,
\* reference date + 2 months) and at most max(EET, max(reference date,
\* LatestRenewal) + 2 months); it is max(EET, reference date + 2 months) when
\* the reference date is on or after LatestRenewal.
C7_RenewalBoundsNotice ==
  C7_Case =>
    /\ Ge(result.value, Max(EET, AddMonths(Ref, 2)))
    /\ Le(result.value, Max(EET, AddMonths(Max(Ref, LatestRenewal), 2)))
    /\ Ge(Ref, LatestRenewal) => result.value = Max(EET, AddMonths(Ref, 2))

\* The case of C7 happens with the reference date before the renewal, and
\* the date returned is the renewal plus 2 months, after both EET and the
\* reference date plus 2 months.
C7_Witness ==
  /\ C7_Case
  /\ Lt(Ref, LatestRenewal)
  /\ result.value = AddMonths(LatestRenewal, 2)
  /\ Gt(result.value, Max(EET, AddMonths(Ref, 2)))

\* -------------------------------------------------------------------- C8
\* The case of C8: LatestRenewal is on or after 2014-04-04 and before
\* 2024-10-01.
C8_Case ==
  /\ pc # "idle"
  /\ Ge(Ref, contract_start)
  /\ Ge(LatestRenewal, LegalFloor)
  /\ Lt(LatestRenewal, RegimeBoundary)

\* C8 as stated: in that case, with TargetRenewal = LatestRenewal + 1 year,
\* the call returns TargetRenewal + 1 year if the reference date + 3 months
\* is after TargetRenewal, and TargetRenewal otherwise.
C8_TargetAfterLatestRenewal ==
  C8_Case =>
    LET TargetRenewal == AddYears(LatestRenewal, 1)
    IN  result = Returned(IF Gt(AddMonths(Ref, 3), TargetRenewal)
                            THEN AddYears(TargetRenewal, 1)
                            ELSE TargetRenewal)

\* C8 as amended: in that case, with TargetRenewal the anniversary at or
\* after EET (LatestRenewal itself when EET is an anniversary), the call
\* returns TargetRenewal when the reference date + 3 months is not after it;
\* otherwise it returns TargetRenewal + 1 year when TargetRenewal is before
\* 2024-10-01, and the mid-term date TargetRenewal + 2 months when
\* TargetRenewal is on or after 2024-10-01.
C8_TargetAtOrAfterExpected ==
  C8_Case =>
    LET TargetRenewal == NextRenewal
    IN  result = Returned(
          IF ~ Gt(AddMonths(Ref, 3), TargetRenewal) THEN TargetRenewal
          ELSE IF Lt(TargetRenewal, RegimeBoundary)
                 THEN AddYears(TargetRenewal, 1)
                 ELSE AddMonths(TargetRenewal, 2))

\* The case of C8 happens with a renewal on or after 2024-10-01 that the 3
\* months of notice miss: the date returned is not an anniversary.
C8_Witness ==
  /\ C8_Case
  /\ Ge(NextRenewal, RegimeBoundary)
  /\ Gt(AddMonths(Ref, 3), NextRenewal)
  /\ result = Returned(AddMonths(NextRenewal, 2))

\* -------------------------------------------------------------------- C9
\* C9: calling again with the date returned as the earliest expected
\* termination, and the same contract start and reference date, returns the
\* same date.
C9_Idempotent ==
  pc = "called_again" => again = result

\* ------------------------------------------------------------------- C10
\* The earliest anniversary of contract_start, one year or more after it,
\* that is on or after EET and on or after the reference date + 3 months.
C10_A ==
  LET ks == { k \in 1 .. (EET.y - contract_start.y + 2) :
                /\ Ge(Anniversary(k), EET)
                /\ Ge(Anniversary(k), AddMonths(Ref, 3)) }
  IN  Anniversary(CHOOSE k \in ks : \A j \in ks : k <= j)

\* C10: when that anniversary is before 2024-10-01 and EET is on or after
\* 2014-04-04, the call returns it.
C10_TrueAnniversary ==
  ( /\ pc # "idle"
    /\ Ge(Ref, contract_start)
    /\ Ge(EET, LegalFloor)
    /\ Lt(C10_A, RegimeBoundary) )
  => result = Returned(C10_A)

\* ------------------------------------------------------------------- C11
\* C11: a call that returns a date never returns a date before the first
\* anniversary of the contract, contract_start + 1 year, in any branch.
C11_NotBeforeFirstAnniversary ==
  ReturnedDate => Ge(result.value, Anniversary(1))

\* A contract started before 2024-10-01 whose expected termination and
\* reference date are contract_start itself (ceil_years gives 0, the next
\* renewal is contract_start): the call returns the first anniversary.
C11_Witness ==
  /\ ReturnedDate
  /\ Lt(contract_start, RegimeBoundary)
  /\ EET = contract_start
  /\ ceil_years(relativedelta(EET, contract_start)) = 0
  /\ result.value = Anniversary(1)

====
